---- MODULE Spec2Model ----
(***************************************************************************)
(* A model of private/python/analyzeRunReports.py: the GATK run-report     *)
(* analyzer.  Text is modelled as a sequence of one-character strings so   *)
(* that parsing, splitting and joining are computed, not assumed.          *)
(***************************************************************************)
EXTENDS Integers, Sequences, FiniteSets, TLC

VARIABLES
    OPTIONS,    \* the parsed command-line options
    text,       \* the argument of parseGATKVersion
    parsed,     \* its result, or the result of parseException
    report,     \* the element handed to decode, passesFilters or parseException
    bindings,   \* the result of decode
    today,      \* datetime.datetime.today()
    passed,     \* the outcome of passesFilters
    stage,      \* the mode argument, which selects the handler
    files,      \* the input files: each a sequence of parse events
    pc,         \* where main is: "scan", "finalize", "done" or a raise
    fileIdx,    \* readReports: the file being read
    pos,        \* readReports: the next event of that file
    opened,     \* the files readReports has opened
    counter,    \* main: the records handed to the handler
    calls,      \* the records processRecord was called with, in order
    out,        \* what the handler printed to its output
    log,        \* the diagnostics printed to stdout
    exceptions, \* ExceptionReport.exceptions
    reports,    \* SummaryReport.reports
    commonExceptions, \* the sorted list of ExceptionReport.finalize
    db,         \* the rows inserted into the GATK_LOGS table
    removed,    \* the files Archive.finalize deleted
    versionLines, \* read_versions: the lines of the version file
    lineNo,     \* read_versions: the next line of the loop
    dict,       \* read_versions: the dictionary d, version line -> types
    type,       \* read_versions: the type of the last "type" line
    versionTable \* read_versions: what it returned or raised

tableVars == <<versionLines, lineNo, dict, type, versionTable>>
pureVars == <<text, parsed, report, bindings, passed, tableVars>>
runVars == <<stage, files, pc, fileIdx, pos, opened, counter, calls, out, log,
             exceptions, reports, commonExceptions, db, removed>>
vars == <<OPTIONS, today, pureVars, runVars>>

(***************************************************************************)
(* Bounds                                                                  *)
(***************************************************************************)
MaxVersionLen == 7
MaxChildren == 3
MaxDays == 2
MaxEvents == 3
MaxBuffered == 3
MaxLines == 6

(***************************************************************************)
(* Text helpers                                                            *)
(***************************************************************************)
\* Python's None (an element without text, a failed find, an unset option).
\* It is a one-element sequence holding a multi-character atom, so it is
\* comparable with every text and equal to none.
None == <<"<None>">>

\* an option of type int that was not given is None: the empty sequence
\* here, and <<n>> when it was given as n
NoInt == << >>
SomeInt(n) == <<n>>

Digits == {"0", "1", "2", "3", "4", "5", "6", "7", "8", "9"}
Letters == {"a", "b", "c", "d", "e", "f", "g", "h", "i", "j", "k", "l", "m",
            "n", "o", "p", "q", "r", "s", "t", "u", "v", "w", "x", "y", "z",
            "A", "B", "C", "D", "E", "F", "G", "H", "I", "J", "K", "L", "M",
            "N", "O", "P", "Q", "R", "S", "T", "U", "V", "W", "X", "Y", "Z"}
\* the regular-expression class \w
WordChars == Digits \cup Letters \cup {"_"}

DigitValue(c) ==
    CASE c = "0" -> 0 [] c = "1" -> 1 [] c = "2" -> 2 [] c = "3" -> 3
      [] c = "4" -> 4 [] c = "5" -> 5 [] c = "6" -> 6 [] c = "7" -> 7
      [] c = "8" -> 8 [] c = "9" -> 9

\* the value of a non-empty digit string, as int() computes it
RECURSIVE IntOfDigits(_)
IntOfDigits(s) ==
    IF Len(s) = 0 THEN 0
    ELSE 10 * IntOfDigits(SubSeq(s, 1, Len(s) - 1)) + DigitValue(s[Len(s)])

\* length of the longest run of digits of s that starts at position i (\d*)
RECURSIVE DigitRun(_, _)
DigitRun(s, i) ==
    IF i <= Len(s) /\ s[i] \in Digits THEN 1 + DigitRun(s, i + 1) ELSE 0

StartsWith(s, p) == Len(p) <= Len(s) /\ SubSeq(s, 1, Len(p)) = p

(***************************************************************************)
(* parseGATKVersion                                                        *)
(***************************************************************************)
ValueError == [raised |-> "ValueError"]
TypeError == [raised |-> "TypeError"]
AttributeError == [raised |-> "AttributeError"]
Raised(r) == r \in {ValueError, TypeError, AttributeError}

UnknownText == <<"u", "n", "k", "n", "o", "w", "n">>

\* re.match("^1\.0\.(\d)(\d*)", text): a match of a prefix of the text
svnMatch(t) ==
    /\ Len(t) >= 5
    /\ SubSeq(t, 1, 4) = <<"1", ".", "0", ".">>
    /\ t[5] \in Digits
svnGroup1(t) == <<t[5]>>
svnGroup2(t) == SubSeq(t, 6, 5 + DigitRun(t, 6))

\* re.match("^(\d)\.(\d+)-(\d+)-\w*$", text): the whole text has to match
gitFullMatch(t) ==
    LET n2 == DigitRun(t, 3)
        n3 == DigitRun(t, 4 + n2)
        h  == 5 + n2 + n3
    IN  /\ Len(t) >= 2
        /\ t[1] \in Digits
        /\ t[2] = "."
        /\ n2 >= 1
        /\ Len(t) >= 3 + n2 /\ t[3 + n2] = "-"
        /\ n3 >= 1
        /\ Len(t) >= 4 + n2 + n3 /\ t[4 + n2 + n3] = "-"
        /\ \A i \in h..Len(t) : t[i] \in WordChars
\* a plausible slip: the second digit group is taken as the minor version
gitFullGroup3_WrongGroup(t) == SubSeq(t, 3, 2 + DigitRun(t, 3))

gitFullGroup3(t) ==
    LET n2 == DigitRun(t, 3) IN SubSeq(t, 4 + n2, 3 + n2 + DigitRun(t, 4 + n2))

\* re.match("^(\d)\.(\d+)$", text)
gitShortMatch(t) ==
    /\ Len(t) >= 3
    /\ t[1] \in Digits
    /\ t[2] = "."
    /\ DigitRun(t, 3) = Len(t) - 2

\* "%s.%s" % match.group(1,2) of either git form
gitMajor(t) == SubSeq(t, 1, 2 + DigitRun(t, 3))

\* the pair (major, minor text) before the final int(minor)
versionParts(t) ==
    IF svnMatch(t)
    THEN [major |-> <<"0", ".">> \o svnGroup1(t), minor |-> svnGroup2(t)]
    ELSE IF gitFullMatch(t)
    THEN [major |-> gitMajor(t), minor |-> gitFullGroup3(t)]
    ELSE IF gitShortMatch(t)
    THEN [major |-> gitMajor(t), minor |-> <<"0">>]
    ELSE [major |-> UnknownText, minor |-> <<"0">>]

parseGATKVersion(t) ==
    IF t = None THEN TypeError            \* re.match on None
    ELSE LET p == versionParts(t)
         IN  IF p.minor = << >> THEN ValueError      \* int("")
             ELSE [major |-> p.major, minor |-> IntOfDigits(p.minor)]

(***************************************************************************)
(* More text helpers: str(), split, join                                    *)
(***************************************************************************)
DigitChar(n) ==
    CASE n = 0 -> "0" [] n = 1 -> "1" [] n = 2 -> "2" [] n = 3 -> "3"
      [] n = 4 -> "4" [] n = 5 -> "5" [] n = 6 -> "6" [] n = 7 -> "7"
      [] n = 8 -> "8" [] n = 9 -> "9"

\* str() of a natural number
RECURSIVE StrOfNat(_)
StrOfNat(n) ==
    IF n < 10 THEN <<DigitChar(n)>> ELSE StrOfNat(n \div 10) \o <<DigitChar(n % 10)>>

\* s.split(c): the pieces of s between the occurrences of the character c
RECURSIVE SplitOn(_, _)
SplitOn(s, c) ==
    IF \A i \in 1..Len(s) : s[i] # c THEN <<s>>
    ELSE LET i == CHOOSE k \in 1..Len(s) : s[k] = c /\ \A m \in 1..(k - 1) : s[m] # c
         IN  <<SubSeq(s, 1, i - 1)>> \o SplitOn(SubSeq(s, i + 1, Len(s)), c)

\* sep.join(parts)
RECURSIVE Join(_, _)
Join(parts, sep) ==
    IF Len(parts) = 0 THEN << >>
    ELSE IF Len(parts) = 1 THEN parts[1]
    ELSE parts[1] \o sep \o Join(Tail(parts), sep)

\* '%s' % x
PercentS(x) == IF x = None THEN <<"N", "o", "n", "e">> ELSE x

(***************************************************************************)
(* XML elements: a tag, a text (or None) and the child elements in order    *)
(***************************************************************************)
Elt(tag, txt, kids) == [tag |-> tag, text |-> txt, kids |-> kids]
Leaf(tag, txt) == Elt(tag, txt, << >>)

\* elt.findall(tag); elt.find(tag) is its first element, None when it is empty
findall(elt, tag) == SelectSeq(elt.kids, LAMBDA k : k.tag = tag)
hasChild(elt, tag) == Len(findall(elt, tag)) > 0
find(elt, tag) == findall(elt, tag)[1]
\* the result of find as a sequence: empty for None, else of length one
findOpt(elt, tag) == IF hasChild(elt, tag) THEN <<find(elt, tag)>> ELSE << >>

(***************************************************************************)
(* parseException and javaExceptionFile                                    *)
(***************************************************************************)
MISSING_VALUE == <<"N", "A">>
MissingText == <<"M", "I", "S", "S", "I", "N", "G">>
RUN_STATUS_SUCCESS == <<"s", "u", "c", "c", "e", "s", "s">>
StingExceptionText ==
    <<"s", "t", "i", "n", "g", "-", "e", "x", "c", "e", "p", "t", "i", "o", "n">>
UserExceptionText ==
    <<"u", "s", "e", "r", "-", "e", "x", "c", "e", "p", "t", "i", "o", "n">>
TrueText == <<"t", "r", "u", "e">>
FalseText == <<"f", "a", "l", "s", "e">>
Newline == "\n"

\* the texts of the string children of the stacktrace child, when there are any
stackStrings(elt) ==
    IF hasChild(elt, "stacktrace")
    THEN LET strings == findall(find(elt, "stacktrace"), "string")
         IN  [i \in 1..Len(strings) |-> strings[i].text]
    ELSE << >>

\* '\n'.join of a list holding None raises TypeError
parseExceptionRaises(elt) ==
    \E i \in 1..Len(stackStrings(elt)) : stackStrings(elt)[i] = None

\* a plausible slip: an exception with a message is a sting-exception
\* whatever its user flag says
parseException_MessageFirst(elt) ==
    LET hasMsg == hasChild(elt, "message")
        hasUser == hasChild(elt, "is-user-exception")
        userException == IF hasUser THEN find(elt, "is-user-exception").text
                         ELSE MISSING_VALUE
    IN  [msgText |-> IF hasMsg THEN find(elt, "message").text ELSE MissingText,
         stackTraceString |-> IF Len(stackStrings(elt)) > 0
                              THEN Join(stackStrings(elt), <<Newline>>)
                              ELSE MISSING_VALUE,
         userException |-> userException,
         runStatus |-> IF hasMsg THEN StingExceptionText
                       ELSE IF hasUser /\ userException = TrueText THEN UserExceptionText
                       ELSE RUN_STATUS_SUCCESS]

parseException(elt) ==
    LET hasMsg == hasChild(elt, "message")
        hasUser == hasChild(elt, "is-user-exception")
        userException == IF hasUser THEN find(elt, "is-user-exception").text
                         ELSE MISSING_VALUE
    IN  [msgText |-> IF hasMsg THEN find(elt, "message").text ELSE MissingText,
         stackTraceString |-> IF Len(stackStrings(elt)) > 0
                              THEN Join(stackStrings(elt), <<Newline>>)
                              ELSE MISSING_VALUE,
         userException |-> userException,
         runStatus |-> IF hasUser /\ userException = TrueText THEN UserExceptionText
                       ELSE IF hasMsg THEN StingExceptionText
                       ELSE RUN_STATUS_SUCCESS]

DotJavaColon == <<".", "j", "a", "v", "a", ":">>

\* re.search("\((.*\.java:.*)\)", s): "." does not match a newline, both
\* stars are greedy, the leftmost "(" that admits a match is taken.  k is the
\* position of the closing parenthesis of the match that starts at i.
javaMatchAt(s, i, k) ==
    /\ s[i] = "(" /\ s[k] = ")" /\ i < k
    /\ \A m \in i..k : s[m] # Newline
    /\ \E j \in (i + 1)..(k - 6) : SubSeq(s, j, j + 5) = DotJavaColon
    /\ \A m \in (k + 1)..Len(s) :
          s[m] = ")" => \E n \in k..m : s[n] = Newline

javaExceptionFile(s) ==
    LET starts == {i \in 1..Len(s) : \E k \in 1..Len(s) : javaMatchAt(s, i, k)}
    IN  IF starts = {} THEN s
        ELSE LET i == CHOOSE a \in starts : \A b \in starts : a <= b
                 k == CHOOSE c \in 1..Len(s) : javaMatchAt(s, i, c)
             IN  SubSeq(s, i + 1, k - 1)

(***************************************************************************)
(* RecordDecoder                                                           *)
(***************************************************************************)
\* self.fields, in the order the constructor registers them
DecoderFields ==
    <<"id", "walker-name",
      "svn-version", "gatk-version", "gatk-minor-version", "release-type",
      "start-time", "end-time", "run-time", "user-name",
      "host-name", "domain-name", "java", "machine",
      "max-memory", "total-memory", "iterations",
      "exception-msg", "stacktrace", "exception-at-brief",
      "is-user-exception", "run-status">>

FieldSet(fields) == {fields[i] : i \in 1..Len(fields)}

IdTags == {"id", "walker-name", "run-time", "user-name",
           "max-memory", "total-memory", "iterations"}
ToStringTags == {"start-time", "end-time", "java", "machine"}
RegisteredTags == IdTags \cup ToStringTags \cup {"svn-version", "host-name", "exception"}

\* self.formatters[tag]: the (field, formatter) pairs of a registered tag
formatters(tag) ==
    CASE tag \in IdTags -> << <<tag, "id">> >>
      [] tag \in ToStringTags -> << <<tag, "toString">> >>
      [] tag = "svn-version" ->
            << <<"svn-version", "id">>,
               <<"gatk-version", "formatMajorVersion">>,
               <<"gatk-minor-version", "formatMinorVersion">>,
               <<"release-type", "formatReleaseType">> >>
      [] tag = "host-name" ->
            << <<"host-name", "formatHostName">>,
               <<"domain-name", "formatDomainName">> >>
      [] tag = "exception" ->
            << <<"exception-msg", "formatExceptionMsg">>,
               <<"stacktrace", "formatExceptionAt">>,
               <<"exception-at-brief", "formatExceptionAtBrief">>,
               <<"is-user-exception", "formatExceptionUser">>,
               <<"run-status", "formatRunStatus">> >>

formatHostName(elt) == IF elt.text # None THEN elt.text ELSE UnknownText

formatDomainName(elt) ==
    LET parts == SplitOn(formatHostName(elt), ".")
    IN  IF Len(parts) >= 2
        THEN Join(SubSeq(parts, Len(parts) - 1, Len(parts)), <<".">>)
        ELSE UnknownText

\* OPTIONS.versions is a mapping from version text to release type
formatReleaseType(elt, versions) ==
    IF elt.text \in DOMAIN versions THEN versions[elt.text] ELSE UnknownText

formatterRaises(func, elt) ==
    CASE func \in {"formatMajorVersion", "formatMinorVersion"} ->
            Raised(parseGATKVersion(elt.text))
      [] func \in {"formatExceptionMsg", "formatExceptionAt", "formatExceptionAtBrief",
                   "formatExceptionUser", "formatRunStatus"} ->
            parseExceptionRaises(elt)
      [] OTHER -> FALSE

formatterValue(func, elt, versions) ==
    CASE func = "id" -> elt.text
      [] func = "toString" -> PercentS(elt.text)
      [] func = "formatMajorVersion" -> parseGATKVersion(elt.text).major
      [] func = "formatMinorVersion" -> StrOfNat(parseGATKVersion(elt.text).minor)
      [] func = "formatReleaseType" -> formatReleaseType(elt, versions)
      [] func = "formatHostName" -> formatHostName(elt)
      [] func = "formatDomainName" -> formatDomainName(elt)
      [] func = "formatExceptionMsg" -> PercentS(parseException(elt).msgText)
      [] func = "formatExceptionAt" -> PercentS(parseException(elt).stackTraceString)
      [] func = "formatExceptionAtBrief" ->
            PercentS(javaExceptionFile(parseException(elt).stackTraceString))
      [] func = "formatExceptionUser" -> PercentS(parseException(elt).userException)
      [] func = "formatRunStatus" -> parseException(elt).runStatus

\* the inner loop of decode: every (field, formatter) of one child is bound,
\* overwriting an earlier binding of the field
bindChild(b, elt, versions) ==
    LET ff == formatters(elt.tag)
        bound == {ff[i][1] : i \in 1..Len(ff)}
    IN  [f \in (DOMAIN b) \cup bound |->
            IF f \in bound
            THEN LET i == CHOOSE k \in 1..Len(ff) : ff[k][1] = f
                 IN  formatterValue(ff[i][2], elt, versions)
            ELSE b[f]]

\* the outer loop of decode over the children, in document order
RECURSIVE bindChildren(_, _, _)
bindChildren(b, kids, versions) ==
    IF Len(kids) = 0 THEN b
    ELSE bindChildren(IF Head(kids).tag \in RegisteredTags
                      THEN bindChild(b, Head(kids), versions)
                      ELSE b,
                      Tail(kids), versions)

\* a plausible slip: the loop that adds the missing data is left out
addMissing_Skipped(b) == b

\* a plausible slip: the absent exception gets the defaults of parseException
addMissing_ExceptionDefaults(b) ==
    [f \in (DOMAIN b) \cup FieldSet(DecoderFields) |->
        IF f \in DOMAIN b THEN b[f]
        ELSE IF f = "exception-msg" THEN MissingText
        ELSE IF f = "run-status" THEN RUN_STATUS_SUCCESS
        ELSE MISSING_VALUE]

\* "add missing data": every declared field not bound gets the sentinel
addMissing(b) ==
    [f \in (DOMAIN b) \cup FieldSet(DecoderFields) |->
        IF f \in DOMAIN b THEN b[f] ELSE MISSING_VALUE]

\* decode raises when a formatter of a registered child raises
decodeRaises(rec) ==
    \E i \in 1..Len(rec.kids) :
        /\ rec.kids[i].tag \in RegisteredTags
        /\ \E k \in 1..Len(formatters(rec.kids[i].tag)) :
              formatterRaises(formatters(rec.kids[i].tag)[k][2], rec.kids[i])

DecodeFailed == [raised |-> "decode"]

decode(rec, versions) ==
    IF decodeRaises(rec) THEN DecodeFailed
    ELSE addMissing(bindChildren(<< >>, rec.kids, versions))

(***************************************************************************)
(* decodeTime: the date portion of a time text, as a day number            *)
(***************************************************************************)
NDText == <<"N", "D">>

\* time.split()[0]: the first whitespace-separated token; IndexError when
\* the text holds no token
RECURSIVE firstToken(_)
firstToken(s) ==
    IF Len(s) > 0 /\ Head(s) = " " THEN firstToken(Tail(s))
    ELSE IF \A i \in 1..Len(s) : s[i] # " " THEN s
    ELSE SubSeq(s, 1, (CHOOSE k \in 1..Len(s) :
                          s[k] = " " /\ \A m \in 1..(k - 1) : s[m] # " ") - 1)

IsLeap(y) == (y % 4 = 0) /\ ((y % 100 # 0) \/ (y % 400 = 0))

DaysInMonth(y, m) ==
    IF m = 2 THEN (IF IsLeap(y) THEN 29 ELSE 28)
    ELSE IF m \in {4, 6, 9, 11} THEN 30 ELSE 31

RECURSIVE DaysBeforeMonth(_, _)
DaysBeforeMonth(y, m) ==
    IF m <= 1 THEN 0 ELSE DaysBeforeMonth(y, m - 1) + DaysInMonth(y, m - 1)

\* datetime.toordinal: the day number of a date at midnight
toordinal(y, m, d) ==
    LET p == y - 1
    IN  p * 365 + (p \div 4) - (p \div 100) + (p \div 400) + DaysBeforeMonth(y, m) + d

IsDigits(s) == \A i \in 1..Len(s) : s[i] \in Digits

\* strptime(token, "%Y/%m/%d") accepts four digits, one or two digits of a
\* month and one or two digits of a day of that month
strptimeOk(token) ==
    LET parts == SplitOn(token, "/")
    IN  /\ Len(parts) = 3
        /\ Len(parts[1]) = 4 /\ IsDigits(parts[1])
        /\ Len(parts[2]) \in {1, 2} /\ IsDigits(parts[2])
        /\ Len(parts[3]) \in {1, 2} /\ IsDigits(parts[3])
        /\ IntOfDigits(parts[1]) >= 1
        /\ IntOfDigits(parts[2]) \in 1..12
        /\ IntOfDigits(parts[3]) \in
              1..DaysInMonth(IntOfDigits(parts[1]), IntOfDigits(parts[2]))

strptime(token) ==
    LET parts == SplitOn(token, "/")
    IN  toordinal(IntOfDigits(parts[1]), IntOfDigits(parts[2]), IntOfDigits(parts[3]))

\* decodeTime returns "ND" for "ND", raises on None (no split), on a text
\* without a token and on a token that is not a date
decodeTimeIsND(time) == time = NDText
decodeTimeRaises(time) ==
    /\ time # NDText
    /\ \/ time = None
       \/ firstToken(time) = << >>
       \/ ~strptimeOk(firstToken(time))
decodeTime(time) == strptime(firstToken(time))

(***************************************************************************)
(* passesFilters                                                           *)
(***************************************************************************)
\* eltTagEquals(elt, tag, value, startsWith); elts is the element as a
\* sequence of length one, or the empty sequence for None
eltTagEquals(elts, tag, value, startsWith) ==
    IF elts = << >> THEN FALSE
    ELSE /\ hasChild(elts[1], tag)
         /\ \/ find(elts[1], tag).text = value
            \/ startsWith = None
            \/ (find(elts[1], tag).text # None
                  /\ StartsWith(find(elts[1], tag).text, startsWith))

\* now = today at midnight, as a day number
midnight(now) == toordinal(now.year, now.month, now.day)

\* the three rules of passesFilters, in the order the code applies them
devRuleRejects(elt, opts) ==
    opts.noDev /\ eltTagEquals(findOpt(elt, "argument-collection"),
                               "phone-home-type", <<"D", "E", "V">>, None)

revRuleRejects(elt, opts) ==
    opts.rev # None /\ ~eltTagEquals(<<elt>>, "svn-version", None, opts.rev)

\* the max-days rule raises when the record has no end-time, when the
\* end-time has no text or is not a date, and on "ND" (now - "ND")
maxDaysRuleRaises(elt, opts) ==
    /\ opts.maxDays # NoInt
    /\ IF hasChild(elt, "end-time")
       THEN IF decodeTimeIsND(find(elt, "end-time").text) THEN TRUE
            ELSE decodeTimeRaises(find(elt, "end-time").text)
       ELSE TRUE

\* a plausible slip: the boundary day is excluded too
maxDaysRuleRejects_Inclusive(elt, opts, now) ==
    /\ opts.maxDays # NoInt
    /\ midnight(now) - decodeTime(find(elt, "end-time").text) >= opts.maxDays[1]

maxDaysRuleRejects(elt, opts, now) ==
    /\ opts.maxDays # NoInt
    /\ midnight(now) - decodeTime(find(elt, "end-time").text) > opts.maxDays[1]

passesFiltersRaises(elt, opts) ==
    /\ ~devRuleRejects(elt, opts)
    /\ ~revRuleRejects(elt, opts)
    /\ maxDaysRuleRaises(elt, opts)

passesFilters(elt, opts, now) ==
    /\ ~devRuleRejects(elt, opts)
    /\ ~revRuleRejects(elt, opts)
    /\ ~maxDaysRuleRejects(elt, opts, now)

(***************************************************************************)
(* Stage handlers: what processRecord and finalize compute                 *)
(***************************************************************************)
\* val.replace('"', "'")
replaceQuotes(val) == [i \in 1..Len(val) |-> IF val[i] = "\"" THEN "'" ELSE val[i]]

\* oneField of AbstractRecordAsTable.processRecord; None is returned as it is
tableField(parsedRec, field) ==
    IF field \notin DOMAIN parsedRec THEN MISSING_VALUE
    ELSE IF parsedRec[field] = None THEN None
    ELSE LET val == replaceQuotes(parsedRec[field])
         IN  IF \E i \in 1..Len(val) : val[i] = " "
             THEN <<"\"">> \o val \o <<"\"">>
             ELSE val

FIELDS_TO_TAKE == <<"walker-name", "start-time", "run-time", "host-name">>

\* getFields of the two table handlers
tableFields(stageName) ==
    IF stageName = "minimaltable" THEN FIELDS_TO_TAKE ELSE DecoderFields

\* the try block of AbstractRecordAsTable.processRecord raises when decode
\* raises and when "\t".join meets a None
tableRaises(stageName, rec, versions) ==
    IF decodeRaises(rec) THEN TRUE
    ELSE LET parsedRec == decode(rec, versions)
         IN  \E i \in 1..Len(tableFields(stageName)) :
                tableField(parsedRec, tableFields(stageName)[i]) = None

tableLine(stageName, rec, versions) ==
    LET ff == tableFields(stageName)
        parsedRec == decode(rec, versions)
    IN  Join([i \in 1..Len(ff) |-> tableField(parsedRec, ff[i])], <<"\t">>)

\* the header printed by initialize
tableHeader(stageName) ==
    [kind |-> "header", fields |-> tableFields(stageName)]

\* getFields of SQLRecordHandler
sqlFields ==
    <<"id", "walker-name", "gatk-version", "gatk-minor-version", "svn-version",
      "start-time", "end-time", "run-time", "user-name", "host-name",
      "domain-name", "total-memory", "stacktrace", "exception-at-brief",
      "exception-msg", "is-user-exception", "run-status", "release-type">>

\* oneField of InsertRecordIntoTable.processRecord
sqlField(parsedRec, field) ==
    IF field \notin DOMAIN parsedRec THEN MISSING_VALUE
    ELSE IF parsedRec[field] = None THEN None
    ELSE LET val == IF field = "run-status" /\ parsedRec[field] = MISSING_VALUE
                    THEN RUN_STATUS_SUCCESS ELSE parsedRec[field]
         IN  <<"\"">> \o replaceQuotes(val) \o <<"\"">>

sqlValues(rec, versions) ==
    LET parsedRec == decode(rec, versions)
    IN  [i \in 1..Len(sqlFields) |-> sqlField(parsedRec, sqlFields[i])]

\* the try block of InsertRecordIntoTable.processRecord, up to the INSERT
sqlRaises(rec, versions) ==
    IF decodeRaises(rec) THEN TRUE
    ELSE LET values == sqlValues(rec, versions)
         IN  \E i \in 1..Len(sqlFields) : values[i] = None

\* ExceptionReport.processRecord buffers a record that has an exception child
eltIsException(elt) == elt.tag = "exception"
hasExceptionChild(rec) == \E i \in 1..Len(rec.kids) : eltIsException(rec.kids[i])

\* decodeTime inside CommonException: "ND" is kept as the day NDDay
NDDay == 0
timeOf(ex) == IF decodeTimeIsND(ex["end-time"]) THEN NDDay ELSE decodeTime(ex["end-time"])

\* CommonException.__init__
CommonException(ex) ==
    [msgs |-> {ex["exception-msg"]}, at |-> ex["stacktrace"],
     svns |-> {ex["svn-version"]}, users |-> {ex["user-name"]},
     userError |-> ex["is-user-exception"], counts |-> 1,
     times |-> {timeOf(ex)}, walkers |-> {ex["walker-name"]}, ids |-> {ex["id"]}]

\* CommonException.equals
commonEquals(common, ex) == common.at = ex["stacktrace"]

\* a plausible slip: the occurrence count is not incremented by a merge
commonUpdate_NoCount(common, ex) ==
    [common EXCEPT !.msgs = @ \cup {ex["exception-msg"]},
                   !.svns = @ \cup {ex["svn-version"]},
                   !.users = @ \cup {ex["user-name"]},
                   !.walkers = @ \cup {ex["walker-name"]},
                   !.times = @ \cup {timeOf(ex)},
                   !.ids = @ \cup {ex["id"]}]

\* a plausible slip: a merge takes the user flag of the merged record
commonUpdate_LastFlag(common, ex) ==
    [common EXCEPT !.msgs = @ \cup {ex["exception-msg"]},
                   !.svns = @ \cup {ex["svn-version"]},
                   !.users = @ \cup {ex["user-name"]},
                   !.userError = ex["is-user-exception"],
                   !.counts = @ + 1,
                   !.walkers = @ \cup {ex["walker-name"]},
                   !.times = @ \cup {timeOf(ex)},
                   !.ids = @ \cup {ex["id"]}]

\* CommonException.update
commonUpdate(common, ex) ==
    [common EXCEPT !.msgs = @ \cup {ex["exception-msg"]},
                   !.svns = @ \cup {ex["svn-version"]},
                   !.users = @ \cup {ex["user-name"]},
                   !.counts = @ + 1,
                   !.walkers = @ \cup {ex["walker-name"]},
                   !.times = @ \cup {timeOf(ex)},
                   !.ids = @ \cup {ex["id"]}]

\* addToCommons: the first entry that equals ex is updated, else ex is appended
addToCommons(commons, ex) ==
    IF \E i \in 1..Len(commons) : commonEquals(commons[i], ex)
    THEN LET i == CHOOSE k \in 1..Len(commons) :
                     /\ commonEquals(commons[k], ex)
                     /\ \A m \in 1..(k - 1) : ~commonEquals(commons[m], ex)
         IN  [commons EXCEPT ![i] = commonUpdate(commons[i], ex)]
    ELSE Append(commons, CommonException(ex))

\* the loop "for ex in self.exceptions: addToCommons(ex)"
RECURSIVE groupExceptions(_, _)
groupExceptions(commons, exs) ==
    IF Len(exs) = 0 THEN commons
    ELSE groupExceptions(addToCommons(commons, Head(exs)), Tail(exs))

\* both __init__ and update call decodeTime, which raises on a text that is
\* neither "ND" nor a date (the sentinel "NA" of a missing end-time too)
groupRaises(exs) ==
    \E i \in 1..Len(exs) : decodeTimeRaises(exs[i]["end-time"])

\* a plausible slip: the most frequent entries come first
RECURSIVE sortedByCounts_Descending(_, _, _)
sortedByCounts_Descending(commons, c, maxCount) ==
    IF c > maxCount THEN << >>
    ELSE sortedByCounts_Descending(commons, c + 1, maxCount)
            \o SelectSeq(commons, LAMBDA x : x.counts = c)

\* sorted(commonExceptions, None, lambda x: x.counts): stable, ascending
RECURSIVE sortedByCounts(_, _, _)
sortedByCounts(commons, c, maxCount) ==
    IF c > maxCount THEN << >>
    ELSE SelectSeq(commons, LAMBDA x : x.counts = c)
            \o sortedByCounts(commons, c + 1, maxCount)

\* a plausible slip: the user mode takes every entry not flagged "false"
matchesExceptionSelection_NotFalse(userError, selection) ==
    \/ selection = "all"
    \/ selection = "user" /\ userError # FalseText
    \/ selection = "sting" /\ userError = FalseText

matchesExceptionSelection(userError, selection) ==
    \/ selection = "all"
    \/ selection = "user" /\ userError = TrueText
    \/ selection = "sting" /\ userError = FalseText

MAX_SET_ITEMS_TO_SHOW == 5

\* toStrings joins the displayed members of the sets: ','.join raises on a
\* None among them (an element without text decoded by the id formatter)
toStringsRaises(common) ==
    \E set \in {common.svns, common.walkers, common.ids, common.users} :
        None \in set /\ Cardinality(set) <= MAX_SET_ITEMS_TO_SHOW

\* the entries printed by ExceptionReport.finalize, in order, up to the
\* first entry whose rendering raises
RECURSIVE emitted(_, _)
emitted(commons, selection) ==
    IF Len(commons) = 0 \/ toStringsRaises(Head(commons)) THEN << >>
    ELSE (IF matchesExceptionSelection(Head(commons).userError, selection)
          THEN <<[kind |-> "exception", entry |-> Head(commons)]>> ELSE << >>)
            \o emitted(Tail(commons), selection)

isStingException(rec) ==
    rec["stacktrace"] # MISSING_VALUE /\ rec["is-user-exception"] = FalseText
isUserException(rec) ==
    rec["stacktrace"] # MISSING_VALUE /\ rec["is-user-exception"] = TrueText

\* the lines of SummaryReport.finalize
summaryOf(recs) ==
    [kind |-> "summary",
     runs |-> Len(recs),
     stingExceptions |-> Len(SelectSeq(recs, isStingException)),
     userExceptions |-> Len(SelectSeq(recs, isUserException)),
     users |-> {recs[i]["user-name"] : i \in 1..Len(recs)}]

\* ', '.join of the user names raises on a None
summaryRaises(recs) == \E i \in 1..Len(recs) : recs[i]["user-name"] = None

(***************************************************************************)
(* Options (the defaults of the OptionParser) and sample texts             *)
(***************************************************************************)
NoVersions == << >>

DefaultOptions ==
    [ID |-> None, maxRecords |-> NoInt, noDev |-> FALSE, rev |-> None,
     exception_selection |-> "all", dryRun |-> FALSE, versions |-> NoVersions,
     maxDays |-> NoInt, reallyDeleteInArchiveMode |-> FALSE]

RUN_REPORT == "GATK-run-report"
RUN_REPORT_LIST == "GATK-run-reports"

\* the state of main before any mode was chosen
RunIdle ==
    /\ stage = "none" /\ files = << >> /\ pc = "idle"
    /\ fileIdx = 1 /\ pos = 1 /\ opened = {} /\ counter = 0
    /\ calls = << >> /\ out = << >> /\ log = << >>
    /\ exceptions = << >> /\ reports = << >> /\ commonExceptions = << >>
    /\ db = << >> /\ removed = {}

\* the state before read_versions is called
NotRead == [status |-> "not called", table |-> << >>]
TableIdle ==
    /\ versionLines = << >> /\ lineNo = 1 /\ dict = << >>
    /\ type = None /\ versionTable = NotRead

SomeDay == [year |-> 2010, month |-> 9, day |-> 2, hour |-> 15]
NoReport == Elt("none", None, << >>)
NotParsed == [raised |-> "not called"]

IdR1 == <<"r", "1">>
IdR2 == <<"r", "2">>
IdR3 == <<"r", "3">>
GitVersion == <<"1", ".", "3", "-", "2", "-", "g">>
SvnVersionEmptyMinor == <<"1", ".", "0", ".", "5">>
StableText == <<"s", "t", "a", "b", "l", "e">>
HostText == <<"n", "1", ".", "b", ".", "o", "r", "g">>
FrameA == <<"a", "t", " ", "X", "(", "A", ".", "j", "a", "v", "a", ":", "1", ")">>
FrameB == <<"a", "t", " ", "Y", "(", "B", ".", "j", "a", "v", "a", ":", "2", ")">>
MsgText == <<"b", "a", "d", " ", "\"", "x", "\"">>
DevText == <<"D", "E", "V">>
StandardText == <<"S", "T", "A", "N", "D", "A", "R", "D">>

SampleVersions == (GitVersion :> StableText)

StackTrace(frames) ==
    Elt("stacktrace", None, [i \in 1..Len(frames) |-> Leaf("string", frames[i])])

\* exception elements: a user exception, an internal one without the user
\* flag, one without any child, and one whose stack frame has no text
UserExceptionElt ==
    Elt("exception", None,
        <<Leaf("message", MsgText), StackTrace(<<FrameA, FrameB>>),
          Leaf("is-user-exception", TrueText)>>)
StingExceptionElt ==
    Elt("exception", None,
        <<Leaf("message", MsgText), StackTrace(<<FrameB>>),
          Leaf("is-user-exception", FalseText)>>)
BareExceptionElt == Elt("exception", None, << >>)
\* an exception of the stack of StingExceptionElt that carries no user flag
UnflaggedExceptionElt ==
    Elt("exception", None, <<Leaf("message", MsgText), StackTrace(<<FrameB>>)>>)
BrokenExceptionElt ==
    Elt("exception", None, <<Leaf("message", None), StackTrace(<<None>>)>>)

(***************************************************************************)
(* main: the scan of the files through readReports, the handler and its    *)
(* finalize.  A parse event of a file is a report element or the point     *)
(* where the XML stops being well formed.                                  *)
(***************************************************************************)
SyntaxError == Elt("<not well-formed>", None, << >>)

Stages == {"table", "minimaltable", "xml", "archive", "exceptions", "summary", "loadToDB"}

Scanning == pc = "scan" /\ fileIdx <= Len(files)
AtEvent == Scanning /\ pos <= Len(files[fileIdx])
event == files[fileIdx][pos]
AtReport == AtEvent /\ event.tag = RUN_REPORT

\* the record reaches the body of the loop of main
Yielded ==
    /\ AtReport
    /\ ~passesFiltersRaises(event, OPTIONS)
    /\ passesFilters(event, OPTIONS, today)

\* "if OPTIONS.ID == None or ID == OPTIONS.ID"
idSelected(rec) == OPTIONS.ID = None \/ find(rec, "id").text = OPTIONS.ID

\* processRecord lets an exception escape only in the two handlers that call
\* decode outside a try block
processRaises(stageName, rec) ==
    \/ stageName = "exceptions" /\ hasExceptionChild(rec) /\ decodeRaises(rec)
    \/ stageName = "summary" /\ decodeRaises(rec)

\* the INSERT fails on a row whose id, the primary key, is in the table
insertRaises(rec) ==
    LET values == sqlValues(rec, OPTIONS.versions)
    IN  \E i \in 1..Len(db) : db[i][1] = values[1]

\* "if OPTIONS.maxRecords > 0 and counter > OPTIONS.maxRecords: break"
cutoffReached(n) ==
    OPTIONS.maxRecords # NoInt /\ OPTIONS.maxRecords[1] > 0 /\ n > OPTIONS.maxRecords[1]

\* readReports: the end of the current file is reached
EndOfFile ==
    /\ Scanning /\ pos > Len(files[fileIdx])
    /\ fileIdx' = fileIdx + 1 /\ pos' = 1
    /\ opened' = opened \cup {fileIdx}
    /\ UNCHANGED <<OPTIONS, today, pureVars, stage, files, pc, counter, calls, out,
                   log, exceptions, reports, commonExceptions, db, removed>>

\* readReports: iterparse or passesFilters raised, the rest of the file is
\* ignored
IgnoreFile ==
    /\ AtEvent
    /\ \/ event = SyntaxError
       \/ event.tag = RUN_REPORT /\ passesFiltersRaises(event, OPTIONS)
    /\ fileIdx' = fileIdx + 1 /\ pos' = 1
    /\ opened' = opened \cup {fileIdx}
    /\ log' = Append(log, "Ignoring excepting file")
    /\ UNCHANGED <<OPTIONS, today, pureVars, stage, files, pc, counter, calls, out,
                   exceptions, reports, commonExceptions, db, removed>>

\* readReports: the record does not pass the filters
FilterOut ==
    /\ AtReport
    /\ ~passesFiltersRaises(event, OPTIONS)
    /\ ~passesFilters(event, OPTIONS, today)
    /\ pos' = pos + 1
    /\ opened' = opened \cup {fileIdx}
    /\ UNCHANGED <<OPTIONS, today, pureVars, stage, files, pc, fileIdx, counter, calls,
                   out, log, exceptions, reports, commonExceptions, db, removed>>

\* main: report.find('id').text on a record without an id child
FindIdRaises ==
    /\ Yielded /\ ~hasChild(event, "id")
    /\ pc' = "raised in main"
    /\ opened' = opened \cup {fileIdx}
    /\ UNCHANGED <<OPTIONS, today, pureVars, stage, files, fileIdx, pos, counter, calls,
                   out, log, exceptions, reports, commonExceptions, db, removed>>

\* main: the record is not the one asked for with -i
SkipOtherId ==
    /\ Yielded /\ hasChild(event, "id") /\ ~idSelected(event)
    /\ pos' = pos + 1
    /\ opened' = opened \cup {fileIdx}
    /\ UNCHANGED <<OPTIONS, today, pureVars, stage, files, pc, fileIdx, counter, calls,
                   out, log, exceptions, reports, commonExceptions, db, removed>>

\* main: handler.processRecord(report) returns, then the counter and the
\* cutoff
ProcessRecord ==
    /\ Yielded /\ hasChild(event, "id") /\ idSelected(event)
    /\ ~processRaises(stage, event)
    /\ calls' = Append(calls, event)
    /\ counter' = counter + 1
    /\ opened' = opened \cup {fileIdx}
    /\ IF cutoffReached(counter + 1)
       THEN pc' = "finalize" /\ pos' = pos
       ELSE pc' = pc /\ pos' = pos + 1
    /\ CASE stage \in {"table", "minimaltable"} ->
              /\ IF tableRaises(stage, event, OPTIONS.versions)
                 THEN /\ out' = out
                      /\ log' = Append(log, "Failed to convert to table")
                 ELSE /\ out' = Append(out, [kind |-> "line",
                                             text |-> tableLine(stage, event, OPTIONS.versions)])
                      /\ log' = log
              /\ UNCHANGED <<exceptions, reports, db>>
         [] stage \in {"xml", "archive"} ->
              /\ out' = Append(out, [kind |-> "xml", elt |-> event])
              /\ UNCHANGED <<log, exceptions, reports, db>>
         [] stage = "exceptions" ->
              /\ exceptions' = IF hasExceptionChild(event)
                               THEN Append(exceptions, decode(event, OPTIONS.versions))
                               ELSE exceptions
              /\ UNCHANGED <<out, log, reports, db>>
         [] stage = "summary" ->
              /\ reports' = Append(reports, decode(event, OPTIONS.versions))
              /\ UNCHANGED <<out, log, exceptions, db>>
         [] stage = "loadToDB" ->
              /\ IF (IF sqlRaises(event, OPTIONS.versions) THEN TRUE
                     ELSE ~OPTIONS.dryRun /\ insertRaises(event))
                 THEN /\ db' = db
                      /\ log' = Append(log, "Skipping excepting record")
                 ELSE /\ db' = IF OPTIONS.dryRun THEN db
                               ELSE Append(db, sqlValues(event, OPTIONS.versions))
                      /\ log' = log
              /\ UNCHANGED <<out, exceptions, reports>>
    /\ UNCHANGED <<OPTIONS, today, pureVars, stage, files, fileIdx,
                   commonExceptions, removed>>

\* main: handler.processRecord(report) raises and nothing catches it
ProcessRecordRaises ==
    /\ Yielded /\ hasChild(event, "id") /\ idSelected(event)
    /\ processRaises(stage, event)
    /\ calls' = Append(calls, event)
    /\ pc' = "raised in processRecord"
    /\ opened' = opened \cup {fileIdx}
    /\ UNCHANGED <<OPTIONS, today, pureVars, stage, files, fileIdx, pos, counter, out,
                   log, exceptions, reports, commonExceptions, db, removed>>

\* readReports is exhausted
EndOfInput ==
    /\ pc = "scan" /\ fileIdx > Len(files)
    /\ pc' = "finalize"
    /\ UNCHANGED <<OPTIONS, today, pureVars, stage, files, fileIdx, pos, opened, counter,
                   calls, out, log, exceptions, reports, commonExceptions, db, removed>>

\* the list ExceptionReport.finalize sorts
finalCommons ==
    LET grouped == groupExceptions(<< >>, exceptions)
    IN  sortedByCounts(grouped, 1, Len(exceptions))

finalizeRaises ==
    IF stage = "exceptions"
    THEN IF groupRaises(exceptions) THEN TRUE
         ELSE \E i \in 1..Len(finalCommons) : toStringsRaises(finalCommons[i])
    ELSE stage = "summary" /\ summaryRaises(reports)

\* Archive.finalize: "for arg in args: ... os.remove(arg)"
filesToRemove == IF OPTIONS.reallyDeleteInArchiveMode THEN DOMAIN files ELSE {}

\* main: handler.finalize(files) returns, the run ends
Finalize ==
    /\ pc = "finalize" /\ ~finalizeRaises
    /\ pc' = "done"
    /\ CASE stage \in {"xml", "archive"} ->
              /\ out' = Append(out, [kind |-> "close", tag |-> RUN_REPORT_LIST])
              /\ removed' = IF stage = "archive" THEN filesToRemove ELSE removed
              /\ log' = IF stage = "archive"
                        THEN log \o <<"Deleted files", "Processed records">>
                        ELSE Append(log, "Processed records")
              /\ UNCHANGED commonExceptions
         [] stage = "exceptions" ->
              /\ commonExceptions' = finalCommons
              /\ out' = out \o emitted(finalCommons, OPTIONS.exception_selection)
              /\ log' = Append(log, "Processed records")
              /\ UNCHANGED removed
         [] stage = "summary" ->
              /\ out' = Append(out, summaryOf(reports))
              /\ log' = Append(log, "Processed records")
              /\ UNCHANGED <<commonExceptions, removed>>
         [] OTHER ->
              /\ log' = Append(log, "Processed records")
              /\ UNCHANGED <<out, commonExceptions, removed>>
    /\ UNCHANGED <<OPTIONS, today, pureVars, stage, files, fileIdx, pos, opened, counter,
                   calls, exceptions, reports, db>>

\* main: handler.finalize(files) raises; what was printed before stays
FinalizeRaises ==
    /\ pc = "finalize" /\ finalizeRaises
    /\ pc' = "raised in finalize"
    /\ IF stage = "exceptions" /\ ~groupRaises(exceptions)
       THEN /\ commonExceptions' = finalCommons
            /\ out' = out \o emitted(finalCommons, OPTIONS.exception_selection)
       ELSE UNCHANGED <<commonExceptions, out>>
    /\ UNCHANGED <<OPTIONS, today, pureVars, stage, files, fileIdx, pos, opened, counter,
                   calls, log, exceptions, reports, db, removed>>

\* what initialize prints
initialOut(stageName) ==
    IF stageName \in {"table", "minimaltable"} THEN <<tableHeader(stageName)>>
    ELSE IF stageName \in {"xml", "archive"} THEN <<[kind |-> "open", tag |-> RUN_REPORT_LIST]>>
    ELSE << >>

UserU1 == <<"u", "1">>
UserU2 == <<"u", "2">>
WalkerText == <<"W">>
EndTimeAug31 == <<"2", "0", "1", "0", "/", "0", "8", "/", "3", "1", " ",
                  "1", "5", ".", "3", "8", ".", "0", "0">>

\* the sample reports of a run
ReportA ==
    Elt(RUN_REPORT, None,
        <<Leaf("id", IdR1), Leaf("walker-name", WalkerText), Leaf("svn-version", GitVersion),
          Leaf("end-time", EndTimeAug31), Leaf("user-name", UserU1),
          Leaf("host-name", HostText), UserExceptionElt>>)
ReportB ==
    Elt(RUN_REPORT, None,
        <<Leaf("id", IdR2), Leaf("end-time", NDText), Leaf("user-name", UserU2),
          UserExceptionElt,
          Elt("argument-collection", None, <<Leaf("phone-home-type", StandardText)>>)>>)
ReportC ==
    Elt(RUN_REPORT, None,
        <<Leaf("id", IdR3), Leaf("end-time", EndTimeAug31), Leaf("user-name", UserU1),
          StingExceptionElt,
          Elt("argument-collection", None, <<Leaf("phone-home-type", DevText)>>)>>)
\* a failed run whose version text makes decode raise
ReportD ==
    Elt(RUN_REPORT, None,
        <<Leaf("id", IdR1), Leaf("svn-version", SvnVersionEmptyMinor),
          Leaf("end-time", EndTimeAug31), Leaf("user-name", UserU2), BareExceptionElt>>)
\* a successful run
ReportE ==
    Elt(RUN_REPORT, None,
        <<Leaf("id", IdR2), Leaf("walker-name", WalkerText),
          Leaf("end-time", EndTimeAug31), Leaf("user-name", UserU2)>>)
\* a failed run without an end-time and with an empty user-name
ReportF ==
    Elt(RUN_REPORT, None,
        <<Leaf("id", IdR3), Leaf("user-name", None), StingExceptionElt>>)
\* a failed run whose exception has no is-user-exception child
ReportH ==
    Elt(RUN_REPORT, None,
        <<Leaf("id", IdR1), Leaf("end-time", EndTimeAug31), Leaf("user-name", UserU2),
          UnflaggedExceptionElt>>)
\* a report without an id
ReportG == Elt(RUN_REPORT, None, <<Leaf("end-time", EndTimeAug31)>>)

RunEvents == {ReportA, ReportC, ReportD, ReportF, ReportG, SyntaxError}

\* two files that hold at most MaxEvents parse events together
EventSeqs == UNION {[1..n -> RunEvents] : n \in 0..MaxEvents}
FileLists ==
    UNION {{<<SubSeq(evs, 1, cut), SubSeq(evs, cut + 1, Len(evs))>> : cut \in 0..Len(evs)} :
              evs \in EventSeqs}

\* the options that select records: the cutoff, the id, the filters
SelectionOptions ==
    {[DefaultOptions EXCEPT !.maxRecords = SomeInt(1)],
     [DefaultOptions EXCEPT !.ID = IdR3],
     [DefaultOptions EXCEPT !.noDev = TRUE, !.maxDays = SomeInt(2)]}

\* every mode under the default options, the table under each selection
\* option, the archive with the deletion confirmed under each of them
RunConfigs ==
    {[stage |-> st, options |-> DefaultOptions] : st \in Stages}
    \cup {[stage |-> "table", options |-> o] : o \in SelectionOptions}
    \cup {[stage |-> "archive",
           options |-> [o EXCEPT !.reallyDeleteInArchiveMode = TRUE]] :
              o \in SelectionOptions \cup {DefaultOptions}}

\* the state after handler.initialize(files)
Started(config, fileList) ==
    /\ stage = config.stage
    /\ OPTIONS = config.options
    /\ files = fileList
    /\ today = SomeDay
    /\ pc = "scan"
    /\ fileIdx = 1 /\ pos = 1 /\ opened = {} /\ counter = 0
    /\ calls = << >> /\ out = initialOut(config.stage) /\ log = << >>
    /\ exceptions = << >> /\ reports = << >> /\ commonExceptions = << >>
    /\ db = << >> /\ removed = {}
    /\ text = << >> /\ parsed = NotParsed /\ report = NoReport
    /\ bindings = NotParsed /\ passed = "not called"
    /\ TableIdle

InitRun == \E config \in RunConfigs, fileList \in FileLists : Started(config, fileList)

NextRun ==
    \/ EndOfFile
    \/ IgnoreFile
    \/ FilterOut
    \/ FindIdRaises
    \/ SkipOtherId
    \/ ProcessRecord
    \/ ProcessRecordRaises
    \/ EndOfInput
    \/ Finalize
    \/ FinalizeRaises

SpecRun == InitRun /\ [][NextRun]_vars

(***************************************************************************)
(* Specification of the exception digest: one file of at most MaxBuffered  *)
(* well-formed reports, read in the exceptions mode under each             *)
(* exception-selection mode.                                               *)
(***************************************************************************)
DigestEvents == {ReportA, ReportB, ReportC, ReportE, ReportF, ReportH}

DigestConfigs ==
    {[stage |-> "exceptions",
      options |-> [DefaultOptions EXCEPT !.exception_selection = sel]] :
        sel \in {"all", "user", "sting"}}

InitDigest ==
    \E config \in DigestConfigs :
        \E evs \in UNION {[1..n -> DigestEvents] : n \in 0..MaxBuffered} :
            Started(config, <<evs>>)

NextDigest ==
    \/ EndOfFile
    \/ ProcessRecord
    \/ EndOfInput
    \/ Finalize
    \/ FinalizeRaises

SpecDigest == InitDigest /\ [][NextDigest]_vars

(***************************************************************************)
(* Specification of the decoder: any record of at most MaxChildren         *)
(* children drawn from registered, repeated and unregistered elements.     *)
(***************************************************************************)
ChildCatalogue ==
    {Leaf("id", IdR1), Leaf("id", None),
     Leaf("svn-version", GitVersion), Leaf("svn-version", SvnVersionEmptyMinor),
     Leaf("host-name", HostText), Leaf("host-name", None),
     Leaf("command-line", MsgText),
     UserExceptionElt, StingExceptionElt, BareExceptionElt, BrokenExceptionElt}

DecodeReports ==
    {Elt(RUN_REPORT, None, kids) :
        kids \in UNION {[1..n -> ChildCatalogue] : n \in 0..MaxChildren}}

InitDecode ==
    /\ report \in DecodeReports
    /\ OPTIONS \in {DefaultOptions, [DefaultOptions EXCEPT !.versions = SampleVersions]}
    /\ bindings = NotParsed
    /\ text = << >>
    /\ parsed = NotParsed
    /\ today = SomeDay
    /\ passed = "not called"
    /\ RunIdle
    /\ TableIdle

Decode ==
    /\ bindings = NotParsed
    /\ bindings' = decode(report, OPTIONS.versions)
    /\ UNCHANGED <<OPTIONS, text, parsed, report, today, passed, runVars, tableVars>>

NextDecode == Decode

SpecDecode == InitDecode /\ [][NextDecode]_vars

(***************************************************************************)
(* Specification of the filter: records with and without an                *)
(* argument-collection, a version and an end-time, under every             *)
(* combination of the three filter options, on two days.                   *)
(***************************************************************************)
\* consecutive days around the end of a month
Calendar ==
    <<[year |-> 2010, month |-> 8, day |-> 30],
      [year |-> 2010, month |-> 8, day |-> 31],
      [year |-> 2010, month |-> 9, day |-> 1],
      [year |-> 2010, month |-> 9, day |-> 2]>>

Pad2(n) == <<DigitChar(n \div 10), DigitChar(n % 10)>>
Pad4(n) == Pad2(n \div 100) \o Pad2(n % 100)

\* an end-time as the reports carry it: "2010/08/31 15.38.00"
FormatTime(date, clock) ==
    Pad4(date.year) \o <<"/">> \o Pad2(date.month) \o <<"/">> \o Pad2(date.day)
        \o <<" ">> \o clock

Clocks == {<<"0", "0", ".", "0", "0", ".", "0", "0">>,
           <<"2", "3", ".", "5", "9", ".", "5", "9">>}

EndTimeTexts ==
    {FormatTime(Calendar[i], c) : i \in 1..Len(Calendar), c \in Clocks}
        \cup {NDText, None, <<"2", "0", "1", "0", "-", "0", "8", "-", "3", "1">>}

Todays == {[year |-> Calendar[i].year, month |-> Calendar[i].month,
            day |-> Calendar[i].day, hour |-> h] : i \in 3..4, h \in {0, 23}}

ArgumentCollections ==
    {<< >>,
     <<Elt("argument-collection", None, << >>)>>,
     <<Elt("argument-collection", None, <<Leaf("phone-home-type", DevText)>>)>>,
     <<Elt("argument-collection", None, <<Leaf("phone-home-type", StandardText)>>)>>}

FilterReports ==
    {Elt(RUN_REPORT, None, <<Leaf("id", IdR1)>> \o ac \o sv \o et) :
        ac \in ArgumentCollections,
        sv \in {<< >>, <<Leaf("svn-version", GitVersion)>>},
        et \in {<< >>} \cup {<<Leaf("end-time", t)>> : t \in EndTimeTexts}}

FilterOptions ==
    {[DefaultOptions EXCEPT !.noDev = nd, !.rev = rv, !.maxDays = md] :
        nd \in BOOLEAN,
        rv \in {None, <<"1", ".", "3">>, <<"1", ".", "4">>},
        md \in {NoInt} \cup {SomeInt(d) : d \in 0..MaxDays}}

InitFilter ==
    /\ report \in FilterReports
    /\ OPTIONS \in FilterOptions
    /\ today \in Todays
    /\ passed = "not called"
    /\ text = << >>
    /\ parsed = NotParsed
    /\ bindings = NotParsed
    /\ RunIdle
    /\ TableIdle

Filter ==
    /\ passed = "not called"
    /\ passed' = IF passesFiltersRaises(report, OPTIONS) THEN "raise"
                 ELSE IF passesFilters(report, OPTIONS, today) THEN "pass"
                 ELSE "reject"
    /\ UNCHANGED <<OPTIONS, text, parsed, report, bindings, today, runVars, tableVars>>

NextFilter == Filter

SpecFilter == InitFilter /\ [][NextFilter]_vars

(***************************************************************************)
(* Specification of the version parser: any short text over an alphabet    *)
(* holding digits, the two separators, a letter and a non-word character.  *)
(***************************************************************************)
VersionAlphabet == {"0", "1", ".", "-", "g", "+"}

VersionPieces(n) == [1..n -> VersionAlphabet]

InitVersion ==
    /\ \E n \in 0..MaxVersionLen :
         \E head \in VersionPieces(n \div 2), tail \in VersionPieces(n - (n \div 2)) :
            text = head \o tail
    /\ parsed = NotParsed
    /\ OPTIONS = DefaultOptions
    /\ report = NoReport
    /\ bindings = NotParsed
    /\ today = SomeDay
    /\ passed = "not called"
    /\ RunIdle
    /\ TableIdle

ParseVersion ==
    /\ parsed = NotParsed
    /\ parsed' = parseGATKVersion(text)
    /\ UNCHANGED <<OPTIONS, text, report, bindings, today, passed, runVars, tableVars>>

NextVersion == ParseVersion

SpecVersion == InitVersion /\ [][NextVersion]_vars

(***************************************************************************)
(* read_versions: the loop over the lines of the version file, then the    *)
(* resolution of the types of every version                                *)
(***************************************************************************)
UnstableText == <<"u", "n", "s", "t", "a", "b", "l", "e">>
GatkGitText == <<"g", "a", "t", "k", ".", "g", "i", "t">>
TypeText == <<"t", "y", "p", "e">>

\* line.strip(): the blanks at both ends are removed
RECURSIVE strip(_)
strip(s) ==
    IF Len(s) = 0 THEN s
    ELSE IF s[1] = " " THEN strip(Tail(s))
    ELSE IF s[Len(s)] = " " THEN strip(SubSeq(s, 1, Len(s) - 1))
    ELSE s

\* line.split(): the words between runs of blanks
split(s) == SelectSeq(SplitOn(s, " "), LAMBDA w : Len(w) > 0)

\* the line the loop is at, stripped, and its words
line == strip(versionLines[lineNo])
vals == split(line)

\* vals[0] of a blank line and vals[1] of a line "type" raise IndexError
readLineRaises ==
    IF Len(vals) = 0 THEN TRUE ELSE vals[1] = TypeText /\ Len(vals) < 2

\* d[line].append(type), after "if line not in d: d[line] = list()"
appendType(dd, key, tag) ==
    [k \in DOMAIN dd \cup {key} |->
        IF k = key
        THEN (IF key \in DOMAIN dd THEN dd[key] ELSE << >>) \o <<tag>>
        ELSE dd[k]]

\* resolveType raises for more than three types and for two without stable
resolveTypeRaises(types) ==
    IF Len(types) > 3 THEN TRUE
    ELSE Len(types) = 2 /\ \A i \in 1..Len(types) : types[i] # StableText

resolveType(types) ==
    IF Len(types) = 3 THEN GatkGitText
    ELSE IF Len(types) = 2 THEN StableText
    ELSE types[1]

Reading == versionTable.status = "not called" /\ lineNo <= Len(versionLines)

\* "if vals[0] == "type": type = vals[1]"
ReadTypeLine ==
    /\ Reading /\ ~readLineRaises /\ vals[1] = TypeText
    /\ type' = vals[2]
    /\ lineNo' = lineNo + 1
    /\ UNCHANGED <<OPTIONS, today, text, parsed, report, bindings, passed, runVars,
                   versionLines, dict, versionTable>>

\* the else branch: the line is a version seen under the current type
ReadVersionLine ==
    /\ Reading /\ ~readLineRaises /\ vals[1] # TypeText
    /\ dict' = appendType(dict, line, type)
    /\ lineNo' = lineNo + 1
    /\ UNCHANGED <<OPTIONS, today, text, parsed, report, bindings, passed, runVars,
                   versionLines, type, versionTable>>

ReadLineRaises ==
    /\ Reading /\ readLineRaises
    /\ versionTable' = [status |-> "raised IndexError", table |-> << >>]
    /\ UNCHANGED <<OPTIONS, today, text, parsed, report, bindings, passed, runVars,
                   versionLines, lineNo, dict, type>>

\* the return statement: every version is resolved, or resolveType raises
ResolveTypes ==
    /\ versionTable.status = "not called" /\ lineNo > Len(versionLines)
    /\ versionTable' =
          IF \E v \in DOMAIN dict : resolveTypeRaises(dict[v])
          THEN [status |-> "raised", table |-> << >>]
          ELSE [status |-> "returned", table |-> [v \in DOMAIN dict |-> resolveType(dict[v])]]
    /\ UNCHANGED <<OPTIONS, today, text, parsed, report, bindings, passed, runVars,
                   versionLines, lineNo, dict, type>>

\* the lines of a version file: the three type lines, a version, a second
\* version followed by a blank, and an empty line
LineCatalogue ==
    {TypeText \o <<" ">> \o StableText,
     TypeText \o <<" ">> \o UnstableText,
     TypeText \o <<" ">> \o GatkGitText,
     <<"1", ".", "4">>, <<"1", ".", "5", " ">>, << >>}

InitReadVersions ==
    /\ \E n \in 0..MaxLines : versionLines \in [1..n -> LineCatalogue]
    /\ lineNo = 1 /\ dict = << >> /\ type = None /\ versionTable = NotRead
    /\ OPTIONS = DefaultOptions
    /\ today = SomeDay
    /\ text = << >> /\ parsed = NotParsed /\ report = NoReport
    /\ bindings = NotParsed /\ passed = "not called"
    /\ RunIdle

NextReadVersions ==
    \/ ReadTypeLine
    \/ ReadVersionLine
    \/ ReadLineRaises
    \/ ResolveTypes

SpecReadVersions == InitReadVersions /\ [][NextReadVersions]_vars

(***************************************************************************)
(* Specification of parseException: any exception element of at most       *)
(* MaxChildren children, among them repeated and text-less ones            *)
(***************************************************************************)
ExceptionChildren ==
    {Leaf("message", MsgText), Leaf("message", None),
     Leaf("is-user-exception", TrueText), Leaf("is-user-exception", FalseText),
     Leaf("is-user-exception", None),
     StackTrace(<< >>), StackTrace(<<FrameA>>), StackTrace(<<FrameA, FrameB>>),
     StackTrace(<<None>>)}

ExceptionElts ==
    {Elt("exception", None, kids) :
        kids \in UNION {[1..n -> ExceptionChildren] : n \in 0..MaxChildren}}

InitException ==
    /\ report \in ExceptionElts
    /\ parsed = NotParsed
    /\ OPTIONS = DefaultOptions
    /\ text = << >>
    /\ bindings = NotParsed
    /\ today = SomeDay
    /\ passed = "not called"
    /\ RunIdle
    /\ TableIdle

ParseException ==
    /\ parsed = NotParsed
    /\ parsed' = IF parseExceptionRaises(report) THEN TypeError
                 ELSE parseException(report)
    /\ UNCHANGED <<OPTIONS, text, report, bindings, today, passed, runVars, tableVars>>

NextException == ParseException

SpecException == InitException /\ [][NextException]_vars

(***************************************************************************)
(* Claims about parseGATKVersion                                           *)
(***************************************************************************)
AllDigits(t, a, b) == a <= b /\ \A k \in a..b : t[k] \in Digits

\* t = <d>.<d+>-<d+>-<rest>, with the two hyphens at positions i and j
ModernShape(t, i, j) ==
    /\ 3 < i /\ i + 1 < j /\ j <= Len(t)
    /\ t[1] \in Digits /\ t[2] = "."
    /\ AllDigits(t, 3, i - 1) /\ t[i] = "-"
    /\ AllDigits(t, i + 1, j - 1) /\ t[j] = "-"

ModernResult(t, i, j) ==
    [major |-> SubSeq(t, 1, i - 1), minor |-> IntOfDigits(SubSeq(t, i + 1, j - 1))]

LegacyShape(t) ==
    /\ Len(t) >= 5
    /\ SubSeq(t, 1, 4) = <<"1", ".", "0", ".">>
    /\ AllDigits(t, 5, Len(t))

\* C10: every text 1.0.<d><digits> parses to ("0.<d>", int(<digits>)), an
\* empty <digits> giving 0; no modern shape is tried for such a text.
C10_Legacy ==
    (parsed # NotParsed /\ LegacyShape(text)) =>
        parsed = [major |-> <<"0", ".", text[5]>>,
                  minor |-> IF Len(text) = 5 THEN 0
                            ELSE IntOfDigits(SubSeq(text, 6, Len(text)))]

(***************************************************************************)
(* Claims about RecordDecoder.decode                                       *)
(***************************************************************************)
Decoded == bindings # NotParsed /\ bindings # DecodeFailed

\* the tag whose formatters produce the field f
SourceTag(f) ==
    CHOOSE tag \in RegisteredTags :
        \E k \in 1..Len(formatters(tag)) : formatters(tag)[k][1] = f

\* C5: whenever decode returns, the mapping holds every declared field, and
\* a field whose source element is absent from the record holds "NA".
C5_Complete ==
    Decoded =>
        \A f \in FieldSet(DecoderFields) :
            /\ f \in DOMAIN bindings
            /\ ~hasChild(report, SourceTag(f)) => bindings[f] = <<"N", "A">>

C5_Witness ==
    /\ Decoded
    /\ report.kids = <<Leaf("host-name", HostText), Leaf("command-line", MsgText),
                       Leaf("host-name", None)>>
    /\ bindings["id"] = <<"N", "A">>
    /\ bindings["host-name"] = UnknownText

Filtered == passed \in {"pass", "reject"}

\* the record has an argument-collection child that holds a phone-home-type
\* child whose text is v
PhoneHomeIs(r, v) ==
    \E i \in 1..Len(r.kids) :
        /\ r.kids[i].tag = "argument-collection"
        /\ \E j \in 1..Len(r.kids[i].kids) :
              /\ r.kids[i].kids[j].tag = "phone-home-type"
              /\ r.kids[i].kids[j].text = v

\* C7: with the other two rules switched off, passesFilters rejects a
\* record exactly when the dev-build option is on and its phone-home-type
\* text is "DEV"; any other phone-home-type text is let through.
C7_DevOnly ==
    (Filtered /\ OPTIONS.rev = None /\ OPTIONS.maxDays = NoInt) =>
        (passed = "reject" <=> (OPTIONS.noDev /\ PhoneHomeIs(report, <<"D", "E", "V">>)))

\* the position of a date in the calendar of consecutive days
DayIndex(d) ==
    CHOOSE i \in 1..Len(Calendar) :
        Calendar[i] = [year |-> d.year, month |-> d.month, day |-> d.day]

\* C8: with only the max-days rule on at threshold D, a record whose
\* end-time falls on a given day is rejected exactly when that day lies more
\* than D days before today; a record exactly D days old passes.
C8_MaxDays ==
    (Filtered /\ ~OPTIONS.noDev /\ OPTIONS.rev = None /\ OPTIONS.maxDays # NoInt) =>
        \A i \in 1..Len(Calendar) : \A c \in Clocks :
            (hasChild(report, "end-time")
               /\ find(report, "end-time").text = FormatTime(Calendar[i], c))
              => (passed = "reject" <=> DayIndex(today) - i > OPTIONS.maxDays[1])

C8_Witness ==
    /\ passed = "pass"
    /\ OPTIONS.maxDays = SomeInt(2) /\ ~OPTIONS.noDev /\ OPTIONS.rev = None
    /\ today = [year |-> 2010, month |-> 9, day |-> 2, hour |-> 23]
    /\ hasChild(report, "end-time")
    /\ find(report, "end-time").text =
          <<"2", "0", "1", "0", "/", "0", "8", "/", "3", "1", " ",
            "0", "0", ".", "0", "0", ".", "0", "0">>

(***************************************************************************)
(* Claims about main and the handlers                                      *)
(***************************************************************************)
\* C1: in the modes table, minimaltable, exceptions, summary and loadToDB a
\* record whose decoding raises never aborts the run: processRecord never
\* lets the error escape, so the scan goes on and finalize runs.
C1_DecodeNeverAborts ==
    stage \in {"table", "minimaltable", "exceptions", "summary", "loadToDB"}
        => pc # "raised in processRecord"

\* C2: with maxRecords set to N > 0, processRecord is called at most N times.
C2_AtMostMaxRecords ==
    (OPTIONS.maxRecords # NoInt /\ OPTIONS.maxRecords[1] > 0)
        => Len(calls) <= OPTIONS.maxRecords[1]

\* the record of a file is one the run selects: it passes the filters and
\* the id filter
Matched(ev) ==
    /\ ev.tag = RUN_REPORT
    /\ ~passesFiltersRaises(ev, OPTIONS)
    /\ passesFilters(ev, OPTIONS, today)
    /\ hasChild(ev, "id")
    /\ idSelected(ev)

Written(ev) == \E k \in 1..Len(out) : out[k] = [kind |-> "xml", elt |-> ev]

\* C3: in archive mode a file is deleted only if the deletion was confirmed,
\* the scan has read the file, and every matched record of the file was
\* written to the archive output.
C3_OnlyConsumedDeleted ==
    stage = "archive" =>
        \A f \in removed :
            /\ OPTIONS.reallyDeleteInArchiveMode
            /\ f \in opened
            /\ \A j \in 1..Len(files[f]) : Matched(files[f][j]) => Written(files[f][j])

\* C4: when finalize of the exception digest returns, the buffered records
\* of one stack signature are in exactly one entry, whose count is their
\* number and whose id set is the set of their ids.
C4_Grouping ==
    (stage = "exceptions" /\ pc = "done") =>
        \A i \in 1..Len(exceptions) :
            LET sig == exceptions[i]["stacktrace"]
                same == {k \in 1..Len(exceptions) : exceptions[k]["stacktrace"] = sig}
                entries == {c \in 1..Len(commonExceptions) : commonExceptions[c].at = sig}
            IN  /\ Cardinality(entries) = 1
                /\ \A c \in entries :
                      /\ commonExceptions[c].counts = Cardinality(same)
                      /\ commonExceptions[c].ids = {exceptions[k]["id"] : k \in same}

C4_Witness ==
    /\ stage = "exceptions" /\ pc = "done"
    /\ Len(exceptions) = 3
    /\ Len(commonExceptions) = 2
    /\ commonExceptions[2].counts = 2
    /\ commonExceptions[2].ids = {IdR1, IdR2}

(***************************************************************************)
(* Claims about read_versions                                              *)
(***************************************************************************)
\* the set of types a version was seen under
Observed(v) == {dict[v][i] : i \in 1..Len(dict[v])}

\* more than three tags, or two tags without stable
Inconsistent(v) ==
    \/ Cardinality(Observed(v)) > 3
    \/ Cardinality(Observed(v)) = 2 /\ StableText \notin Observed(v)

\* C11: for a file of type lines and version lines in which every version
\* line follows a type line, read_versions fails
\* when some version has more than three tags or two tags without stable,
\* and otherwise returns a table that gives every version the type of the
\* set of tags it was seen under: three tags gatk.git, stable and another
\* tag stable, a single tag that tag, however often the version is listed.
C11_TypesOfTagSet ==
    (/\ versionTable.status \in {"returned", "raised"}
     /\ \A v \in DOMAIN dict : None \notin Observed(v)) =>
        IF \E v \in DOMAIN dict : Inconsistent(v)
        THEN versionTable.status = "raised"
        ELSE /\ versionTable.status = "returned"
             /\ \A v \in DOMAIN dict :
                   versionTable.table[v] =
                      IF Cardinality(Observed(v)) = 3 THEN GatkGitText
                      ELSE IF Cardinality(Observed(v)) = 2 THEN StableText
                      ELSE CHOOSE t \in Observed(v) : TRUE

(***************************************************************************)
(* Claims about parseException                                             *)
(***************************************************************************)
\* parseException has returned its four values
Returned == "runStatus" \in DOMAIN parsed

\* the children of the element with a tag, and the first of them
KidsAt(tag) == {i \in 1..Len(report.kids) : report.kids[i].tag = tag}
FirstKid(tag) == report.kids[CHOOSE i \in KidsAt(tag) : \A j \in KidsAt(tag) : i <= j]

\* the texts of the string children of the stacktrace child
FrameTexts ==
    IF KidsAt("stacktrace") = {} THEN << >>
    ELSE LET frames == FirstKid("stacktrace").kids
             strings == SelectSeq(frames, LAMBDA k : k.tag = "string")
         IN  [i \in 1..Len(strings) |-> strings[i].text]

\* C12: whenever parseException returns for an exception element, runStatus
\* is user-exception if the is-user-exception text is "true", else
\* sting-exception if there is a message child, else success; the user flag
\* is the is-user-exception text, or NA without that child; the stack
\* signature is the frame texts joined by newlines, or NA without frames.
C12_ParseException ==
    Returned =>
        /\ parsed.runStatus =
              IF KidsAt("is-user-exception") # {}
                    /\ FirstKid("is-user-exception").text = TrueText
              THEN UserExceptionText
              ELSE IF KidsAt("message") # {} THEN StingExceptionText
              ELSE RUN_STATUS_SUCCESS
        /\ parsed.userException =
              IF KidsAt("is-user-exception") # {}
              THEN FirstKid("is-user-exception").text
              ELSE MISSING_VALUE
        /\ IF FrameTexts = << >>
           THEN parsed.stackTraceString = MISSING_VALUE
           ELSE SplitOn(parsed.stackTraceString, Newline) = FrameTexts

\* a user exception with a message and a stack of two frames was parsed
C12_Witness ==
    /\ Returned
    /\ parsed.runStatus = UserExceptionText
    /\ KidsAt("message") # {}
    /\ Len(FrameTexts) = 2
    /\ parsed.stackTraceString = FrameA \o <<Newline>> \o FrameB

(***************************************************************************)
(* Claims about the exception digest                                       *)
(***************************************************************************)
\* finalize of the exception digest has grouped and sorted the buffer
Grouped ==
    /\ stage = "exceptions"
    /\ pc \in {"done", "raised in finalize"}
    /\ ~groupRaises(exceptions)

\* the position in the buffer of the first record with a stack signature
FirstSeen(sig) ==
    CHOOSE k \in 1..Len(exceptions) :
        /\ exceptions[k]["stacktrace"] = sig
        /\ \A m \in 1..(k - 1) : exceptions[m]["stacktrace"] # sig

\* C13: the digest entries are emitted in non-decreasing order of their
\* counts, and entries of equal counts in the order in which their stack
\* signatures were first seen in the record stream.
C13_EmissionOrder ==
    Grouped =>
        \A i, j \in 1..Len(out) :
            i < j =>
                /\ out[i].entry.counts <= out[j].entry.counts
                /\ out[i].entry.counts = out[j].entry.counts
                      => FirstSeen(out[i].entry.at) < FirstSeen(out[j].entry.at)

\* the sort has moved an entry seen first behind a rarer one seen later
C13_Witness ==
    /\ Grouped /\ pc = "done"
    /\ Len(out) = 2
    /\ out[1].entry.counts = 1 /\ out[2].entry.counts = 2
    /\ FirstSeen(out[2].entry.at) < FirstSeen(out[1].entry.at)

\* the entry is among the emitted ones
Emitted(common) == \E k \in 1..Len(out) : out[k].entry = common

\* C14: when finalize returns, a grouped entry is emitted exactly if the
\* mode is all, or the mode is user and its flag is "true", or the mode is
\* sting and its flag is "false"; an entry whose flag is NA is emitted under
\* all only.
C14_Selection ==
    (stage = "exceptions" /\ pc = "done") =>
        \A c \in 1..Len(commonExceptions) :
            LET flag == commonExceptions[c].userError
                mode == OPTIONS.exception_selection
            IN  /\ Emitted(commonExceptions[c]) <=>
                      \/ mode = "all"
                      \/ mode = "user" /\ flag = TrueText
                      \/ mode = "sting" /\ flag = FalseText
                /\ (flag = MISSING_VALUE /\ Emitted(commonExceptions[c])) => mode = "all"

\* under the user mode an entry flagged "true" was emitted and one flagged
\* NA was held back
C14_Witness ==
    /\ stage = "exceptions" /\ pc = "done"
    /\ OPTIONS.exception_selection = "user"
    /\ Len(commonExceptions) = 2 /\ Len(out) = 1
    /\ out[1].entry.userError = TrueText
    /\ \E c \in 1..2 : /\ commonExceptions[c].userError = MISSING_VALUE
                       /\ ~Emitted(commonExceptions[c])

RECURSIVE SumOfCounts(_)
SumOfCounts(commons) ==
    IF Len(commons) = 0 THEN 0 ELSE Head(commons).counts + SumOfCounts(Tail(commons))

\* C16: every processed record with an exception child is buffered once and
\* no other record is; once finalize has grouped the buffer the signatures
\* of the entries are pairwise distinct, their counts add up to the number
\* of processed records with an exception child, and the flag of an entry
\* is the flag of the first record seen with its signature.
C16_Aggregate ==
    stage = "exceptions" =>
        /\ exceptions = [k \in 1..Len(exceptions) |->
                            decode(SelectSeq(calls, hasExceptionChild)[k], OPTIONS.versions)]
        /\ Len(exceptions) = Len(SelectSeq(calls, hasExceptionChild))
        /\ Grouped =>
              /\ \A a, b \in 1..Len(commonExceptions) :
                    a # b => commonExceptions[a].at # commonExceptions[b].at
              /\ SumOfCounts(commonExceptions) = Len(SelectSeq(calls, hasExceptionChild))
              /\ \A c \in 1..Len(commonExceptions) :
                    commonExceptions[c].userError =
                       exceptions[FirstSeen(commonExceptions[c].at)]["is-user-exception"]

\* two records of one signature and different flags were merged, after a
\* record without an exception was processed
C16_Witness ==
    /\ Grouped /\ pc = "done"
    /\ Len(calls) = 3 /\ Len(exceptions) = 2
    /\ Len(commonExceptions) = 1
    /\ commonExceptions[1].counts = 2
    /\ commonExceptions[1].userError = FalseText
    /\ exceptions[2]["is-user-exception"] = MISSING_VALUE

(***************************************************************************)
(* Claims about the table output                                           *)
(***************************************************************************)
\* the output lines a printed text takes, and the values a line holds
OutputLines(printed) == SplitOn(printed, Newline)
TabValues(printed) == SplitOn(printed, "\t")

\* C15: in the table modes the output is the header followed by what was
\* printed for the records, and every record printed takes exactly one
\* output line, which holds as many tab-separated values as the header has
\* fields.
C15_OneLinePerRecord ==
    stage \in {"table", "minimaltable"} =>
        /\ out[1] = tableHeader(stage)
        /\ \A k \in 2..Len(out) :
              /\ out[k].kind = "line"
              /\ Len(OutputLines(out[k].text)) = 1
              /\ Len(TabValues(out[k].text)) = Len(out[1].fields)

====
